---- MODULE Spec2Model ----
(***************************************************************************)
(* Model of net_troubleshooter.py: the ping output parser (ping_host),     *)
(* the per-host aggregator (run_diagnostics), the CSV serializer           *)
(* (save_results_csv), the telemetry loop (monitor_hosts) and the command  *)
(* line entry point (main_cli).                                            *)
(*                                                                         *)
(* Representation choices                                                  *)
(*  - Python None is the empty sequence <<>>, a present value v is <<v>>.  *)
(*  - A float is an exact fraction [num, den] in lowest terms (rounding of *)
(*    binary floating point is not modelled).                              *)
(*  - A ping output text is a sequence of tokens, one token per fragment   *)
(*    that one of the regular expressions of ping_host can match on; the   *)
(*    regular expressions are modelled as searches over that sequence.     *)
(*  - A traceroute text is a sequence of characters.                       *)
(*  - Time is counted in whole clock ticks.                                *)
(***************************************************************************)
EXTENDS Integers, Sequences, FiniteSets, TLC

VARIABLES
    args,          \* the parsed command line (main_cli)
    pc,            \* control position of the program
    now,           \* the wall clock, time.time()
    start,         \* monitor_hosts: start
    ping_count,    \* run_diagnostics: ping_count
    results,       \* run_diagnostics: results
    hi,            \* run_diagnostics: index of the host h of the for loop
    t0,            \* run_diagnostics: t0
    dns,           \* run_diagnostics: dns
    ping,          \* run_diagnostics: ping
    tr,            \* run_diagnostics: tr
    port_results,  \* run_diagnostics: port_results
    fs,            \* the files, by name
    budget,        \* number of probes the environment may still make fail
    probeLog,      \* history: the probes issued by the current run_diagnostics,
                   \* each <<kind, host, argument, succeeded>>
    cycles,        \* history: completed run_diagnostics + save_results_csv pairs
    firstElapsed,  \* history: time.time() - start at the first loop test
    written,       \* history: names of the files opened for writing
    input,         \* unit harness: the argument of the function under test
    output,        \* unit harness: its result
    phase          \* unit harness: "idle", "input" or "done"

vars == <<args, pc, now, start, ping_count, results, hi, t0, dns, ping, tr,
          port_results, fs, budget, probeLog, cycles, firstElapsed, written,
          input, output, phase>>

progVars == <<args, pc, now, start, ping_count, results, hi, t0, dns, ping, tr,
              port_results, fs, budget, probeLog, cycles, firstElapsed, written>>

unitVars == <<input, output, phase>>

----------------------------------------------------------------------------
(* Bounds of the model *)

MaxTextLen == 3      \* tokens in a ping text
MaxRawPad == 2       \* traceroute texts run up to TruncLimit + MaxRawPad characters
MaxHosts == 2        \* hosts on the command line
MaxPorts == 2        \* ports on the command line
MaxRecords == 2      \* records handed to the serializer in the unit harness
MaxInterval == 2     \* telemetry interval
MaxDuration == 2     \* telemetry duration
MaxDelay == 1        \* clock ticks that pass between two readings of the clock
MaxFaults == 2       \* probes the environment makes fail in a one-shot run
MaxLoopFaults == 0   \* probes the environment makes fail in a run of the whole program

(* Program constants *)

TruncLimit == 400        \* tr["raw"][:400]
TelemetryPingCount == 2  \* monitor_hosts: ping_count=2
DefaultPingCount == 3    \* --count default

----------------------------------------------------------------------------
(* Python values *)

None == <<>>
Some(v) == <<v>>

Min(S) == CHOOSE x \in S : \A y \in S : x <= y

RECURSIVE GCD(_, _)
GCD(a, b) == IF b = 0 THEN a ELSE GCD(b, a % b)

\* the float num/den, den > 0, num >= 0
Float(num, den) ==
    LET g == GCD(num, den)
    IN  [num |-> num \div g, den |-> den \div g]

----------------------------------------------------------------------------
(* Ping output texts *)

Tok(k, a, b, c) == [k |-> k, a |-> a, b |-> b, c |-> c]

\* "<a> packets transmitted"
TxTokens == {Tok("tx", n, 0, 0) : n \in {0, 4}}
\* "<a> received"
RxTokens == {Tok("rx", n, 0, 0) : n \in {0, 4}}
\* "<a>% packet loss"; a is the run of digits right before the percent sign
\* (3333 for "33.3333% packet loss")
LossTokens == {Tok("loss", n, 0, 0) : n \in {0, 50, 3333}}
\* "Sent = <a>, Received = <b>, Lost = <c>"
WinTokens == {Tok("win", 4, 2, 2), Tok("win", 0, 0, 0), Tok("win", 4, 0, 4),
              Tok("win", 1, 0, 5)}
\* "rtt min/avg/max/mdev = x/<avg>/y/z ms"; a is the captured avg in tenths,
\* b = 1 when the captured [\d\.]+ is a well-formed number, 0 when not ("1.2.3")
RttTokens == {Tok("rtt", 123, 1, 0), Tok("rtt", 0, 0, 0)}
\* "Average = <a>ms"
AvgTokens == {Tok("avg", 5, 0, 0)}
\* "ttl=" (a = 0) or "TTL=" (a = 1)
TtlTokens == {Tok("ttl", 0, 0, 0), Tok("ttl", 1, 0, 0)}
\* any other text
JunkTokens == {Tok("junk", 0, 0, 0)}

PingTokens == TxTokens \cup RxTokens \cup LossTokens \cup WinTokens \cup
              RttTokens \cup AvgTokens \cup TtlTokens \cup JunkTokens

PingTexts == UNION {[1..n -> PingTokens] : n \in 0..MaxTextLen}

\* str.lower() on one fragment: only the case of the marker is tracked
LowerTok(t) == IF t.k = "ttl" THEN Tok("ttl", 0, 0, 0) ELSE t

\* text.lower()
Lower(text) == [i \in 1..Len(text) |-> LowerTok(text[i])]

\* "ttl=" in s
ContainsTtl(s) == \E i \in 1..Len(s) : s[i] = Tok("ttl", 0, 0, 0)

\* position of the first token of kind k at or after position from, 0 if none
FirstAt(text, k, from) ==
    LET S == {i \in from..Len(text) : text[i].k = k}
    IN  IF S = {} THEN 0 ELSE Min(S)

\* re.search(r"(\d+)\s+packets transmitted.*?(\d+)\s+received.*?([0-9]+)%\s+packet loss", text, re.S)
\* the three groups of the leftmost match, None when there is no match
SearchUnixCounters(text) ==
    LET n == Len(text)
        starts == {i \in 1..n : /\ text[i].k = "tx"
                                /\ \E j \in (i+1)..n :
                                     /\ text[j].k = "rx"
                                     /\ \E l \in (j+1)..n : text[l].k = "loss"}
    IN  IF starts = {} THEN None
        ELSE LET i == Min(starts)
                 j == FirstAt(text, "rx", i + 1)
                 l == FirstAt(text, "loss", j + 1)
             IN  Some(<<text[i].a, text[j].a, text[l].a>>)

\* re.search(r"Sent = (\d+), Received = (\d+), Lost = (\d+)", text)
SearchWinCounters(text) ==
    LET i == FirstAt(text, "win", 1)
    IN  IF i = 0 THEN None ELSE Some(<<text[i].a, text[i].b, text[i].c>>)

\* re.search(r"rtt [\w/]+ = [\d\.]+/([\d\.]+)/[\d\.]+/[\d\.]+ ms", text)
SearchUnixRtt(text) ==
    LET i == FirstAt(text, "rtt", 1)
    IN  IF i = 0 THEN None ELSE Some(text[i])

\* re.search(r"Average = (\d+)ms", text)
SearchWinAvg(text) ==
    LET i == FirstAt(text, "avg", 1)
    IN  IF i = 0 THEN None ELSE Some(text[i].a)

\* faulty variant of WinLoss: the share of the packets received, not lost
WinLoss_ReceivedShare(sent, lost) ==
    IF sent # 0 THEN Some(Float((sent - lost) * 100, sent)) ELSE None

\* loss = (lost / sent) * 100 if sent else None
WinLoss(sent, lost) ==
    IF sent # 0 THEN Some(Float(lost * 100, sent)) ELSE None

\* the packet counters of a text: the update of sent, received, loss_pct
ParseCounters(text) ==
    LET m == SearchUnixCounters(text)
        m2 == SearchWinCounters(text)
    IN  IF m # None
        THEN [sent |-> Some(m[1][1]), received |-> Some(m[1][2]),
              loss_pct |-> Some(Float(m[1][3], 1))]
        ELSE IF m2 # None
        THEN [sent |-> Some(m2[1][1]), received |-> Some(m2[1][2]),
              loss_pct |-> WinLoss(m2[1][1], m2[1][3])]
        ELSE [sent |-> None, received |-> None, loss_pct |-> None]

\* the average round trip time of a text: avg_rtt_ms
ParseAvgRtt(text) ==
    LET m3 == SearchUnixRtt(text)
        m4 == SearchWinAvg(text)
    IN  IF m3 # None
        THEN (IF m3[1].b = 1 THEN Some(Float(m3[1].a, 10)) ELSE None)
        ELSE IF m4 # None THEN Some(Float(m4[1], 1))
        ELSE None

\* faulty variant of PingSuccess: the marker is looked for in the text as it is
PingSuccess_CaseSensitive(received, text) ==
    IF received # None /\ received[1] # 0 /\ received[1] > 0 THEN TRUE
    ELSE IF ContainsTtl(text) THEN TRUE
    ELSE FALSE

\* the success flag
PingSuccess(received, text) ==
    IF received # None /\ received[1] # 0 /\ received[1] > 0 THEN TRUE
    ELSE IF ContainsTtl(Lower(text)) THEN TRUE
    ELSE FALSE

\* ping_host, given what run_subprocess returned: (ok, out)
ping_host(host, ok, out) ==
    LET c == ParseCounters(out)
    IN  IF ~ok
        THEN [host |-> host, success |-> FALSE, raw |-> out, sent |-> None,
              received |-> None, loss_pct |-> None, avg_rtt_ms |-> None]
        ELSE [host |-> host, success |-> PingSuccess(c.received, out),
              raw |-> out, sent |-> c.sent, received |-> c.received,
              loss_pct |-> c.loss_pct, avg_rtt_ms |-> ParseAvgRtt(out)]

----------------------------------------------------------------------------
(* Traceroute texts and their truncation *)

Chars == <<"a", "b", "c">>

\* a text of n characters
RawText(n, seed) == [i \in 1..n |-> Chars[((i * seed) % 3) + 1]]

\* "...[truncated]"
Marker == <<".", ".", ".", "[", "t", "r", "u", "n", "c", "a", "t", "e", "d", "]">>

\* s[:n]
Prefix(s, n) == SubSeq(s, 1, IF Len(s) < n THEN Len(s) ELSE n)

\* faulty variant of Snippet: a text of exactly the limit gets the marker too
Snippet_MarkerAtLimit(raw) ==
    Prefix(raw, TruncLimit) \o (IF Len(raw) >= TruncLimit THEN Marker ELSE <<>>)

\* tr["raw"][:400] + ("...[truncated]" if len(tr["raw"])>400 else "")
Snippet(raw) ==
    Prefix(raw, TruncLimit) \o (IF Len(raw) > TruncLimit THEN Marker ELSE <<>>)

----------------------------------------------------------------------------
(* Probe adapters, given the outcome of the external call *)

\* traceroute_host, given what run_subprocess returned: (ok, out)
traceroute_host(host, ok, out) == [host |-> host, success |-> ok, raw |-> out]

\* check_tcp_port, given whether create_connection succeeded and the time it took
check_tcp_port(host, port, connected, elapsed) ==
    IF connected
    THEN [host |-> host, port |-> port, open |-> TRUE, rtt_ms |-> elapsed]
    ELSE [host |-> host, port |-> port, open |-> FALSE, error |-> "refused",
          rtt_ms |-> elapsed]

\* dns_lookup, given whether gethostbyname succeeded
dns_lookup(name, resolved) ==
    IF resolved
    THEN [name |-> name, ip |-> Some("10.0.0.1"), success |-> TRUE]
    ELSE [name |-> name, ip |-> None, success |-> FALSE, error |-> "unknown host"]

\* the record run_diagnostics builds for one host
MakeRecord(ts, h, d, p, t, prs) ==
    [timestamp |-> ts, host |-> h, dns |-> d, ping |-> p,
     traceroute |-> [raw |-> Snippet(t.raw)], ports |-> prs]

----------------------------------------------------------------------------
(* save_results_csv *)

keys == <<"timestamp", "host", "dns_ip", "dns_ok", "ping_sent", "ping_recv",
          "ping_loss_pct", "ping_avg_rtt_ms", "port", "port_open", "port_rtt_ms",
          "traceroute_snippet">>

PortKeys == {"port", "port_open", "port_rtt_ms"}

\* d.get(k) for a key whose value is never None when present
Get(d, k) == IF k \in DOMAIN d THEN Some(d[k]) ELSE None

\* base: every value is held as a cell, None for Python's None
Base(r) ==
    [timestamp |-> Some(r.timestamp), host |-> Some(r.host),
     dns_ip |-> r.dns.ip, dns_ok |-> Get(r.dns, "success"),
     ping_sent |-> r.ping.sent, ping_recv |-> r.ping.received,
     ping_loss_pct |-> r.ping.loss_pct, ping_avg_rtt_ms |-> r.ping.avg_rtt_ms,
     traceroute_snippet |-> Get(r.traceroute, "raw")]

\* row = base.copy(); row.update({...})
PortRow(base, p) ==
    [port |-> Some(p.port), port_open |-> Get(p, "open"),
     port_rtt_ms |-> Get(p, "rtt_ms")] @@ base

\* faulty variant of RowsOf: a record without ports gives no row
RowsOf_DropPortless(r) ==
    [i \in 1..Len(r.ports) |-> PortRow(Base(r), r.ports[i])]

\* the rows appended for one record
RowsOf(r) ==
    IF r.ports # <<>>
    THEN [i \in 1..Len(r.ports) |-> PortRow(Base(r), r.ports[i])]
    ELSE <<Base(r)>>

RECURSIVE Rows(_)
\* rows, after the loop over results
Rows(res) ==
    IF res = <<>> THEN <<>>
    ELSE RowsOf(Head(res)) \o Rows(Tail(res))

\* csv.DictWriter.writerow: one cell per field name, empty for a missing key or None
WriteRow(row) ==
    [k \in {keys[i] : i \in 1..Len(keys)} |-> IF k \in DOMAIN row THEN row[k] ELSE None]

NoFile == [header |-> <<>>, rows |-> <<>>]

\* what open(filename, "w"), writeheader() and the writerow() loop leave in a file
\* that held old
WriteCsv(old, rows) ==
    [header |-> keys, rows |-> [i \in 1..Len(rows) |-> WriteRow(rows[i])]]

\* the file save_results_csv(res) leaves in place of old
SavedFile(old, res) == WriteCsv(old, Rows(res))

----------------------------------------------------------------------------
(* Inputs *)

HostPool == <<"h1", "h2", "h3", "h4">>
PortPool == <<22, 443, 8080, 8443>>

HostLists == {SubSeq(HostPool, 1, n) : n \in 1..MaxHosts}
PortLists == {SubSeq(PortPool, 1, n) : n \in 0..MaxPorts}
CountSamples == {1, DefaultPingCount}

DefaultOut == "net_diagnostics_log.csv"
TelemetryFile == "telemetry_log.csv"
FileNames == {DefaultOut, TelemetryFile}

TelemetryArgs ==
    {None} \cup {Some(<<i, d>>) : i \in (-1)..MaxInterval, d \in 0..MaxDuration}

ArgsSet == [hosts : HostLists, ports : PortLists, count : CountSamples,
            out : FileNames, telemetry : TelemetryArgs]

\* what run_subprocess can return for the ping command:
\* replies, no reply, or a failure to run the command
PingReplies == [ok |-> TRUE, fault |-> 0,
                out |-> <<Tok("tx", 4, 0, 0), Tok("rx", 4, 0, 0), Tok("loss", 0, 0, 0)>>]
PingSilent == [ok |-> TRUE, fault |-> 1, out |-> <<Tok("win", 4, 0, 4)>>]
PingNotRun == [ok |-> FALSE, fault |-> 1, out |-> <<Tok("junk", 0, 0, 0)>>]
PingRuns == {PingReplies, PingSilent, PingNotRun}

\* what run_subprocess can return for the traceroute command
TraceRuns == {[ok |-> TRUE, fault |-> 0, out |-> RawText(3, 1)],
              [ok |-> FALSE, fault |-> 1, out |-> RawText(2, 2)]}

----------------------------------------------------------------------------
(* The program *)

IsTelemetry == args.telemetry # None
interval == args.telemetry[1][1]
duration == args.telemetry[1][2]
hosts == args.hosts
ports == args.ports
h == hosts[hi]

\* the program before main_cli runs
ProgReset ==
    /\ now = 0
    /\ start = 0
    /\ ping_count = 0
    /\ results = <<>>
    /\ hi = 0
    /\ t0 = 0
    /\ dns = None
    /\ ping = None
    /\ tr = None
    /\ port_results = <<>>
    /\ fs = [f \in FileNames |-> NoFile]
    /\ probeLog = <<>>
    /\ cycles = 0
    /\ firstElapsed = None
    /\ written = {}

ProgInit ==
    /\ args \in ArgsSet
    /\ pc = "main"
    /\ budget = MaxLoopFaults
    /\ ProgReset

\* the program not running: the unit harness calls one function directly
ProgIdle ==
    /\ args = [hosts |-> <<"h1">>, ports |-> <<>>, count |-> DefaultPingCount,
               out |-> DefaultOut, telemetry |-> None]
    /\ pc = "idle"
    /\ budget = 0
    /\ ProgReset

UnitIdle ==
    /\ input = None
    /\ output = None
    /\ phase = "idle"

Init == ProgInit /\ UnitIdle

\* the call run_diagnostics(hosts, ports=ports, ping_count=n)
CallRunDiagnostics(n) ==
    /\ ping_count' = n
    /\ results' = <<>>
    /\ hi' = 0
    /\ probeLog' = <<>>
    /\ pc' = "rd_for"

\* the environment may make one more probe fail
MayFail(n) == n <= budget

\* main_cli: the branch on args.telemetry; monitor_hosts starts with start = time.time()
MainCli ==
    /\ pc = "main"
    /\ IF IsTelemetry
       THEN /\ start' = now
            /\ pc' = "loop"
            /\ UNCHANGED <<ping_count, results, hi, probeLog>>
       ELSE /\ CallRunDiagnostics(args.count)
            /\ UNCHANGED start
    /\ UNCHANGED <<args, now, t0, dns, ping, tr, port_results, fs, budget, cycles,
                   firstElapsed, written, unitVars>>

\* faulty variant of LoopCondition: a cycle still starts at the deadline
LoopCondition_Inclusive(elapsed, dur) == elapsed <= dur

\* the loop condition of monitor_hosts
LoopCondition(elapsed, dur) == elapsed < dur

\* monitor_hosts: while time.time() - start < duration, then the call of run_diagnostics
LoopTest ==
    /\ pc = "loop"
    /\ \E d \in 0..MaxDelay :
         /\ now' = now + d
         /\ firstElapsed' = IF firstElapsed = None THEN Some(now' - start)
                            ELSE firstElapsed
         /\ IF LoopCondition(now' - start, duration)
            THEN CallRunDiagnostics(TelemetryPingCount)
            ELSE /\ pc' = "done"
                 /\ UNCHANGED <<ping_count, results, hi, probeLog>>
    /\ UNCHANGED <<args, start, t0, dns, ping, tr, port_results, fs, budget, cycles,
                   written, unitVars>>

\* run_diagnostics: for h in hosts, t0 = now; return results after the last host
ForHost ==
    /\ pc = "rd_for"
    /\ IF hi < Len(hosts)
       THEN /\ hi' = hi + 1
            /\ t0' = now
            /\ pc' = "rd_dns"
       ELSE /\ pc' = "save"
            /\ UNCHANGED <<hi, t0>>
    /\ UNCHANGED <<args, now, start, ping_count, results, dns, ping, tr, port_results,
                   fs, budget, probeLog, cycles, firstElapsed, written, unitVars>>

\* run_diagnostics: dns = dns_lookup(h)
DnsLookup ==
    /\ pc = "rd_dns"
    /\ \E resolved \in BOOLEAN :
         /\ resolved \/ MayFail(1)
         /\ dns' = dns_lookup(h, resolved)
         /\ budget' = budget - (IF resolved THEN 0 ELSE 1)
         /\ probeLog' = Append(probeLog, <<"dns", h, 0, resolved>>)
    /\ pc' = "rd_ping"
    /\ UNCHANGED <<args, now, start, ping_count, results, hi, t0, ping, tr,
                   port_results, fs, cycles, firstElapsed, written, unitVars>>

\* faulty variant of PingHost: no ping for a host whose name did not resolve
PingHost_SkippedAfterDnsFailure ==
    /\ pc = "rd_ping"
    /\ IF dns.success
       THEN \E run \in PingRuns :
              /\ MayFail(run.fault)
              /\ ping' = ping_host(h, run.ok, run.out)
              /\ budget' = budget - run.fault
              /\ probeLog' = Append(probeLog, <<"ping", h, ping_count, run.fault = 0>>)
       ELSE /\ ping' = ping_host(h, FALSE, <<>>)
            /\ UNCHANGED <<budget, probeLog>>
    /\ pc' = "rd_tr"
    /\ UNCHANGED <<args, now, start, ping_count, results, hi, t0, dns, tr,
                   port_results, fs, cycles, firstElapsed, written, unitVars>>

\* run_diagnostics: ping = ping_host(h, count=ping_count)
PingHost ==
    /\ pc = "rd_ping"
    /\ \E run \in PingRuns :
         /\ MayFail(run.fault)
         /\ ping' = ping_host(h, run.ok, run.out)
         /\ budget' = budget - run.fault
         /\ probeLog' = Append(probeLog, <<"ping", h, ping_count, run.fault = 0>>)
    /\ pc' = "rd_tr"
    /\ UNCHANGED <<args, now, start, ping_count, results, hi, t0, dns, tr,
                   port_results, fs, cycles, firstElapsed, written, unitVars>>

\* run_diagnostics: tr = traceroute_host(h, max_hops=20); port_results = []
TracerouteHost ==
    /\ pc = "rd_tr"
    /\ \E run \in TraceRuns :
         /\ MayFail(run.fault)
         /\ tr' = traceroute_host(h, run.ok, run.out)
         /\ budget' = budget - run.fault
         /\ probeLog' = Append(probeLog, <<"traceroute", h, 0, run.ok>>)
    /\ port_results' = <<>>
    /\ pc' = "rd_ports"
    /\ UNCHANGED <<args, now, start, ping_count, results, hi, t0, dns, ping,
                   fs, cycles, firstElapsed, written, unitVars>>

\* run_diagnostics: for p in ports: port_results.append(check_tcp_port(h, p))
CheckTcpPort ==
    /\ pc = "rd_ports"
    /\ Len(port_results) < Len(ports)
    /\ LET p == ports[Len(port_results) + 1]
       IN  /\ \E connected \in BOOLEAN :
                /\ connected \/ MayFail(1)
                /\ port_results' = Append(port_results, check_tcp_port(h, p, connected, 1))
                /\ budget' = budget - (IF connected THEN 0 ELSE 1)
                /\ probeLog' = Append(probeLog, <<"port", h, p, connected>>)
    /\ UNCHANGED <<args, pc, now, start, ping_count, results, hi, t0, dns, ping, tr,
                   fs, cycles, firstElapsed, written, unitVars>>

\* run_diagnostics: record = {...}; results.append(record)
AppendRecord ==
    /\ pc = "rd_ports"
    /\ Len(port_results) = Len(ports)
    /\ results' = Append(results, MakeRecord(t0, h, dns, ping, tr, port_results))
    /\ pc' = "rd_for"
    /\ UNCHANGED <<args, now, start, ping_count, hi, t0, dns, ping, tr, port_results,
                   fs, budget, probeLog, cycles, firstElapsed, written, unitVars>>

\* ghost counter of completed cycles, saturating at MaxDuration + 1
CountCycle == IF cycles <= MaxDuration THEN cycles + 1 ELSE cycles

\* save_results_csv(results, filename)
save_results_csv(filename) ==
    /\ fs' = [fs EXCEPT ![filename] = SavedFile(fs[filename], results)]
    /\ written' = written \cup {filename}
    /\ cycles' = CountCycle

\* faulty variant of TelemetryTarget: the telemetry loop saves to --out
TelemetryTarget_Out == args.out

\* the file monitor_hosts saves to
TelemetryTarget == TelemetryFile

\* monitor_hosts: save_results_csv(results, filename="telemetry_log.csv")
SaveTelemetry ==
    /\ pc = "save"
    /\ IsTelemetry
    /\ save_results_csv(TelemetryTarget)
    /\ pc' = "sleep"
    /\ UNCHANGED <<args, now, start, ping_count, results, hi, t0, dns, ping, tr,
                   port_results, budget, probeLog, firstElapsed, unitVars>>

\* main_cli: save_results_csv(results, filename=args.out)
SaveOneShot ==
    /\ pc = "save"
    /\ ~IsTelemetry
    /\ save_results_csv(args.out)
    /\ pc' = "done"
    /\ UNCHANGED <<args, now, start, ping_count, results, hi, t0, dns, ping, tr,
                   port_results, budget, probeLog, firstElapsed, unitVars>>

\* faulty variant of Sleep: the loop goes on without waiting
Sleep_NoWait ==
    /\ pc = "sleep"
    /\ pc' = "loop"
    /\ UNCHANGED <<args, now, start, ping_count, results, hi, t0, dns, ping, tr,
                   port_results, fs, budget, probeLog, cycles, firstElapsed, written,
                   unitVars>>

\* monitor_hosts: time.sleep(interval); a negative interval raises ValueError
Sleep ==
    /\ pc = "sleep"
    /\ IF interval < 0
       THEN /\ pc' = "crashed"
            /\ UNCHANGED now
       ELSE /\ now' = now + interval
            /\ pc' = "loop"
    /\ UNCHANGED <<args, start, ping_count, results, hi, t0, dns, ping, tr,
                   port_results, fs, budget, probeLog, cycles, firstElapsed, written,
                   unitVars>>

Next ==
    \/ MainCli
    \/ LoopTest
    \/ ForHost
    \/ DnsLookup
    \/ PingHost
    \/ TracerouteHost
    \/ CheckTcpPort
    \/ AppendRecord
    \/ SaveTelemetry
    \/ SaveOneShot
    \/ Sleep

Spec == Init /\ [][Next]_vars

\* the telemetry loop in every timing, on one host and one port with no failing probe
LiveInit ==
    /\ args \in {a \in ArgsSet : /\ a.hosts = <<HostPool[1]>>
                                 /\ a.ports = <<PortPool[1]>>
                                 /\ a.count = DefaultPingCount
                                 /\ a.out = DefaultOut}
    /\ pc = "main"
    /\ budget = 0
    /\ ProgReset
    /\ UnitIdle

\* the program is one sequential process that always takes its next step
LiveSpec == LiveInit /\ [][Next]_vars /\ WF_vars(Next)

\* a one-shot run (no --telemetry), with up to MaxFaults failing probes
DiagInit ==
    /\ args \in {a \in ArgsSet : a.telemetry = None}
    /\ pc = "main"
    /\ budget = MaxFaults
    /\ ProgReset
    /\ UnitIdle

DiagNext ==
    \/ MainCli
    \/ ForHost
    \/ DnsLookup
    \/ PingHost
    \/ TracerouteHost
    \/ CheckTcpPort
    \/ AppendRecord
    \/ SaveOneShot

DiagSpec == DiagInit /\ [][DiagNext]_vars

----------------------------------------------------------------------------
(* Unit harness: one function applied to one input *)

\* ping_host on an arbitrary output of the ping command
ParseInit ==
    /\ ProgIdle
    /\ input \in [ok : BOOLEAN, out : PingTexts]
    /\ output = None
    /\ phase = "input"

ParseStep ==
    /\ phase = "input"
    /\ output' = ping_host("h1", input.ok, input.out)
    /\ phase' = "done"
    /\ UNCHANGED <<input, progVars>>

ParseNext == ParseStep

ParseSpec == ParseInit /\ [][ParseNext]_vars

\* the record of run_diagnostics for a traceroute text of any length
TruncInit ==
    /\ ProgIdle
    /\ input \in {RawText(n, seed) : n \in 0..(TruncLimit + MaxRawPad), seed \in 1..2}
    /\ output = None
    /\ phase = "input"

TruncStep ==
    /\ phase = "input"
    /\ output' = MakeRecord(0, "h1", dns_lookup("h1", TRUE),
                            ping_host("h1", PingReplies.ok, PingReplies.out),
                            traceroute_host("h1", TRUE, input), <<>>)
    /\ phase' = "done"
    /\ UNCHANGED <<input, progVars>>

TruncNext == TruncStep

TruncSpec == TruncInit /\ [][TruncNext]_vars

\* n port results for host, alternately open and closed
SamplePorts(host, n, firstOpen) ==
    [j \in 1..n |-> check_tcp_port(host, PortPool[j], (j % 2 = 1) = firstOpen, j)]

\* records as run_diagnostics builds them, with any number of ports
SampleRecords ==
    {MakeRecord(i, HostPool[i], dns_lookup(HostPool[i], resolved),
                ping_host(HostPool[i], run.ok, run.out),
                traceroute_host(HostPool[i], TRUE, RawText(3, 1)),
                SamplePorts(HostPool[i], n, resolved)) :
        i \in 1..MaxHosts, resolved \in BOOLEAN, n \in 0..MaxPorts,
        run \in {PingReplies}}

SampleResults == UNION {[1..n -> SampleRecords] : n \in 0..MaxRecords}

\* save_results_csv on any sequence of records, over an absent or an existing file
SaveInit ==
    /\ ProgIdle
    /\ input \in [results : SampleResults,
                  old : {NoFile} \cup {SavedFile(NoFile, <<r>>) : r \in SampleRecords}]
    /\ output = None
    /\ phase = "input"

SaveStep ==
    /\ phase = "input"
    /\ output' = SavedFile(input.old, input.results)
    /\ phase' = "done"
    /\ UNCHANGED <<input, progVars>>

SaveNext == SaveStep

SaveSpec == SaveInit /\ [][SaveNext]_vars

----------------------------------------------------------------------------
(* Properties of the ping parser (ParseSpec) *)

Parsed == phase = "done"

\* some "<n> packets transmitted" is followed by a "<n> received" and that by a
\* "<n>% packet loss"
HasUnixCounters(text) ==
    \E i, j, l \in 1..Len(text) :
        /\ i < j
        /\ j < l
        /\ text[i].k = "tx"
        /\ text[j].k = "rx"
        /\ text[l].k = "loss"

HasKind(text, k) == \E i \in 1..Len(text) : text[i].k = k

\* the first "Sent = s, Received = r, Lost = l" of a text that has one
FirstWin(text) == text[Min({i \in 1..Len(text) : text[i].k = "win"})]

\* lower <= f <= upper
FloatBetween(f, lower, upper) ==
    /\ lower * f.den <= f.num
    /\ f.num <= upper * f.den

\* C3: succeeded is true if and only if packetsReceived was parsed and is > 0, or
\* the packet counters could not be parsed and the raw output contains the
\* case-insensitive marker "ttl=" (stated for the results of a ping command that ran)
C3_SuccessIff ==
    (Parsed /\ input.ok) =>
        (output.success <=>
            \/ (output.received # None /\ output.received[1] > 0)
            \/ (output.sent = None /\ output.received = None /\ HasKind(output.raw, "ttl")))

\* C5: when the text has no Unix counters but has the Windows counters
\* "Sent = s, Received = r, Lost = l", sent = s, received = r, and lossPercent is
\* l/s*100 when s > 0 and unset when s = 0; s=4, r=2, l=2 gives 50.0 and succeeded
C5_WindowsCounters ==
    (Parsed /\ input.ok /\ ~HasUnixCounters(input.out) /\ HasKind(input.out, "win")) =>
        LET w == FirstWin(input.out)
        IN  /\ output.sent = <<w.a>>
            /\ output.received = <<w.b>>
            /\ (w.a > 0 => /\ output.loss_pct # None
                           /\ output.loss_pct[1].num * w.a = w.c * 100 * output.loss_pct[1].den)
            /\ (w.a = 0 => output.loss_pct = None)
            /\ (w = Tok("win", 4, 2, 2) =>
                    /\ output.loss_pct = <<[num |-> 50, den |-> 1]>>
                    /\ output.success)

\* the Windows counters s=4, r=2, l=2 were parsed, and so were counters with s = 0
C5_Witness ==
    /\ Parsed
    /\ input.ok
    /\ ~HasUnixCounters(input.out)
    /\ HasKind(input.out, "win")
    /\ FirstWin(input.out) = Tok("win", 4, 2, 2)
    /\ HasKind(input.out, "tx")
    /\ output.loss_pct = <<[num |-> 50, den |-> 1]>>

\* C7: for a text in which none of the four patterns matches (the empty text too),
\* sent, received, lossPercent and averageRttMs are all unset, and succeeded is true
\* exactly when the text contains the case-insensitive marker "ttl="
C7_NoMatch ==
    (/\ Parsed
     /\ input.ok
     /\ ~HasUnixCounters(input.out)
     /\ ~HasKind(input.out, "win")
     /\ ~HasKind(input.out, "rtt")
     /\ ~HasKind(input.out, "avg")) =>
        /\ output.sent = None
        /\ output.received = None
        /\ output.loss_pct = None
        /\ output.avg_rtt_ms = None
        /\ output.raw = input.out
        /\ (output.success <=> HasKind(input.out, "ttl"))
        /\ (input.out = <<>> => ~output.success)

\* a text with the marker in upper case and nothing else recognisable was parsed
C7_Witness ==
    /\ Parsed
    /\ input.ok
    /\ input.out = <<Tok("tx", 4, 0, 0), Tok("ttl", 1, 0, 0), Tok("loss", 0, 0, 0)>>
    /\ output.success
    /\ output.sent = None

\* C9: lossPercent is unset or between 0 and 100 inclusive
C9_LossInRange ==
    (Parsed /\ output.loss_pct # None) => FloatBetween(output.loss_pct[1], 0, 100)

----------------------------------------------------------------------------
(* Properties of the truncation (TruncSpec) *)

\* C6: the stored snippet is the text verbatim when its length is <= 400, and the
\* first 400 characters followed by the marker when it is longer; it never exceeds
\* 400 characters plus the marker
C6_Truncation ==
    (phase = "done") =>
        LET snippet == output.traceroute.raw
        IN  /\ (Len(input) <= 400 => snippet = input)
            /\ (Len(input) > 400 =>
                    /\ Len(snippet) = 400 + Len(Marker)
                    /\ \A i \in 1..400 : snippet[i] = input[i]
                    /\ \A i \in 1..Len(Marker) : snippet[400 + i] = Marker[i])
            /\ Len(snippet) <= 400 + Len(Marker)

\* a text of 401 characters was stored truncated
C6_Witness ==
    /\ phase = "done"
    /\ Len(input) = 401
    /\ Len(output.traceroute.raw) = 400 + Len(Marker)

----------------------------------------------------------------------------
(* Properties of the serializer (SaveSpec) *)

\* max(1, N) for a record with N port results
RowCount(r) == IF Len(r.ports) = 0 THEN 1 ELSE Len(r.ports)

RECURSIVE RowsBefore(_, _)
\* the number of rows of the records before the k-th
RowsBefore(res, k) ==
    IF k <= 1 THEN 0 ELSE RowsBefore(res, k - 1) + RowCount(res[k - 1])

NonPortKeys == {keys[i] : i \in 1..Len(keys)} \ PortKeys

\* C2: a record with zero port results emits exactly one row whose port, port_open
\* and port_rtt_ms columns are empty; a record with N >= 1 port results emits N
\* rows, in port order, each carrying one port's result, all with the same non-port
\* columns; the row count is the sum over the records of max(1, N)
C2_RowFanOut ==
    (phase = "done") =>
        LET res == input.results
            rows == output.rows
        IN  /\ output.header = keys
            /\ Len(rows) = RowsBefore(res, Len(res) + 1)
            /\ \A k \in 1..Len(res) :
                 LET first == RowsBefore(res, k) + 1
                     r == res[k]
                 IN  /\ \A i \in 0..(RowCount(r) - 1) :
                            /\ DOMAIN rows[first + i] = {keys[c] : c \in 1..Len(keys)}
                            /\ rows[first + i].host = <<r.host>>
                            /\ rows[first + i].timestamp = <<r.timestamp>>
                            /\ rows[first + i].dns_ok = <<r.dns.success>>
                            /\ \A c \in NonPortKeys : rows[first + i][c] = rows[first][c]
                     /\ (Len(r.ports) = 0 =>
                            \A c \in PortKeys : rows[first][c] = <<>>)
                     /\ \A i \in 1..Len(r.ports) :
                            /\ rows[first + i - 1].port = <<r.ports[i].port>>
                            /\ rows[first + i - 1].port_open = <<r.ports[i].open>>
                            /\ rows[first + i - 1].port_rtt_ms = <<r.ports[i].rtt_ms>>

\* a record without ports followed by a record with two ports was serialized into
\* three rows over an existing file
C2_Witness ==
    /\ phase = "done"
    /\ Len(input.results) = 2
    /\ Len(input.results[1].ports) = 0
    /\ Len(input.results[2].ports) = 2
    /\ input.old # NoFile
    /\ Len(output.rows) = 3

----------------------------------------------------------------------------
(* Properties of run_diagnostics (DiagSpec) *)

\* probes per host: DNS, ping, traceroute and one per port
ProbesPerHost == 3 + Len(ports)

\* the n-th probe run_diagnostics is to issue: <<kind, host, argument>>
ExpectedProbe(n) ==
    LET host == hosts[((n - 1) \div ProbesPerHost) + 1]
        k == (n - 1) % ProbesPerHost
    IN  IF k = 0 THEN <<"dns", host, 0>>
        ELSE IF k = 1 THEN <<"ping", host, ping_count>>
        ELSE IF k = 2 THEN <<"traceroute", host, 0>>
        ELSE <<"port", host, ports[k - 2]>>

\* the log entry of the k-th probe (0 = DNS, 1 = ping, 2 = traceroute, 2 + j = port j)
\* on the i-th host
ProbeOf(i, k) == probeLog[(i - 1) * ProbesPerHost + k + 1]

InRunDiagnostics == pc \in {"rd_for", "rd_dns", "rd_ping", "rd_tr", "rd_ports"}

\* C4: run_diagnostics never fails and returns one record per host in input order;
\* for each host the DNS lookup, the ping, the traceroute and one TCP probe per
\* port, in port order, are all executed whatever failed before, and a failure is
\* recorded only in the sub-result of the probe that failed
C4_AllProbesRun ==
    /\ pc # "rd_raised"
    /\ (InRunDiagnostics /\ pc # "rd_for") => Len(results) = hi - 1
    /\ (pc = "save") =>
        /\ Len(results) = Len(hosts)
        /\ Len(probeLog) = Len(hosts) * ProbesPerHost
        /\ \A n \in 1..Len(probeLog) :
             <<probeLog[n][1], probeLog[n][2], probeLog[n][3]>> = ExpectedProbe(n)
        /\ \A i \in 1..Len(hosts) :
             /\ results[i].host = hosts[i]
             /\ results[i].dns.name = hosts[i]
             /\ results[i].dns.success = ProbeOf(i, 0)[4]
             /\ results[i].ping.host = hosts[i]
             /\ results[i].ping.success = ProbeOf(i, 1)[4]
             /\ \E run \in TraceRuns :
                  /\ run.ok = ProbeOf(i, 2)[4]
                  /\ results[i].traceroute.raw = run.out
             /\ Len(results[i].ports) = Len(ports)
             /\ \A j \in 1..Len(ports) :
                  /\ results[i].ports[j].port = ports[j]
                  /\ results[i].ports[j].host = hosts[i]
                  /\ results[i].ports[j].open = ProbeOf(i, 2 + j)[4]

\* the DNS lookup of the first of two hosts failed, and every later probe ran
C4_Witness ==
    /\ pc = "save"
    /\ Len(hosts) = 2
    /\ Len(ports) = 2
    /\ ~results[1].dns.success
    /\ results[1].ping.success
    /\ results[2].dns.success
    /\ results[2].ports[2].open

----------------------------------------------------------------------------
(* Properties of the telemetry loop (Spec, LiveSpec) *)

Stopped == pc \in {"done", "crashed"}

\* C1 as stated: at least one cycle (run_diagnostics followed by save_results_csv)
\* runs for every input, a duration of zero included
C1_AlwaysOneCycle ==
    (IsTelemetry /\ Stopped) => cycles >= 1

\* C1 amended: a cycle runs exactly when the elapsed time read at the first loop
\* test is less than the duration, whatever the interval
C1_OneCycleIffInTime ==
    (IsTelemetry /\ Stopped) =>
        /\ firstElapsed # None
        /\ (cycles >= 1 <=> firstElapsed[1] < duration)
        /\ (duration <= 0 => cycles = 0)

\* a duration smaller than the interval, and one cycle ran
C1_Witness ==
    /\ IsTelemetry
    /\ pc = "done"
    /\ duration = 1
    /\ interval = 2
    /\ cycles = 1

\* the last cycle is over and no other has started
AfterCycle == pc = "sleep" \/ (pc \in {"loop", "done", "crashed"} /\ cycles >= 1)

\* every cycle pings with the count 2 and leaves in telemetry_log.csv the header and
\* the rows of that cycle alone
TelemetryCycles ==
    /\ InRunDiagnostics => ping_count = 2
    /\ \A n \in 1..Len(probeLog) : probeLog[n][1] = "ping" => probeLog[n][3] = 2
    /\ AfterCycle =>
        /\ fs[TelemetryFile].header = keys
        /\ Len(fs[TelemetryFile].rows) =
              Len(hosts) * (IF Len(ports) = 0 THEN 1 ELSE Len(ports))
        /\ \A i \in 1..Len(fs[TelemetryFile].rows) :
              fs[TelemetryFile].rows[i].timestamp = <<t0>>
        /\ fs[TelemetryFile] = SavedFile(NoFile, results)

\* C8 as stated: in telemetry mode --out and --count have no effect, every cycle
\* uses the ping count 2 and rewrites telemetry_log.csv, and the file named by --out
\* is never written
C8_OutNeverWritten ==
    IsTelemetry => (TelemetryCycles /\ args.out \notin written)

\* C8 amended: ..., and no file other than telemetry_log.csv is ever written (the
\* file named by --out is written only when --out names telemetry_log.csv itself)
C8_OnlyTelemetryFileWritten ==
    IsTelemetry =>
        /\ TelemetryCycles
        /\ written \subseteq {TelemetryFile}
        /\ \A f \in FileNames \ {TelemetryFile} : fs[f] = NoFile
        /\ (args.out # TelemetryFile => args.out \notin written)

\* a second telemetry cycle has rewritten the file, at a later time than the first,
\* for a caller who gave another --out and another --count
C8_Witness ==
    /\ IsTelemetry
    /\ pc = "sleep"
    /\ cycles >= 2
    /\ t0 > 0
    /\ args.out # TelemetryFile
    /\ args.count # 2
    /\ Len(ports) = 2
    /\ Len(fs[TelemetryFile].rows) = Len(hosts) * 2

====
